---- MODULE Spec2Model ----
(***************************************************************************)
(* Model of the Paranoia soft-delete plugin (src/src/index.ts) together    *)
(* with the three models of its test suite (src/unnamed/part_000):         *)
(* UserDefault, UserScope and UserAll, one per activeArchive policy.       *)
(* Every operation is issued against the three models at once, so that the *)
(* policies can be compared operation by operation.                        *)
(***************************************************************************)
EXTENDS Integers, Sequences, FiniteSets, TLC

\* Bounds of the model.
MaxDocs == 2
MaxClock == 2
MaxOps == 2
MaxHooks == 2

Policies == {"Default", "Scope", "All"}
Ids == 1..MaxDocs

(***************************************************************************)
(* Stored values, written as strings so that values of different          *)
(* JavaScript types can be compared.  Undefined: the key is not stored.    *)
(***************************************************************************)
True == "true"
False == "false"
Null == "null"
Undefined == "undefined"
Date(t) == "date" \o ToString(t)
AdminUserId == "admin-user-id"

\* The keys a stored document can hold besides _id.
Keys == {"deleted", "deletedAt", "deletedBy", "isDeleted", "removedAt"}

\* The resolved options (opts) of one plugin attachment.
DefaultOpts ==
  [deletedAt |-> TRUE, deletedBy |-> FALSE,
   deletedField |-> "deleted", deletedAtField |-> "deletedAt",
   deletedByField |-> "deletedBy"]

\* The options of the model with renamed fields.
CustomOpts ==
  [DefaultOpts EXCEPT !.deletedField = "isDeleted", !.deletedAtField = "removedAt"]

\* The names the fields have when the configuration does not rename them.
DefaultNames == {DefaultOpts.deletedField, DefaultOpts.deletedAtField}

EmptyRec == [k \in Keys |-> Undefined]

\* A document created through the model: the schema defaults of the fields
\* the plugin added, overlaid with the caller-supplied deletion flag.
NewRecord(o, flag) ==
  [k \in Keys |->
     IF k = o.deletedField THEN flag
     ELSE IF o.deletedAt /\ k = o.deletedAtField THEN Null
     ELSE IF o.deletedBy /\ k = o.deletedByField THEN Null
     ELSE Undefined]

(***************************************************************************)
(* Filters.  A filter constrains _id (0: unconstrained) and, per key, holds *)
(* one of the conditions undefined / true / false / {$ne: true}.           *)
(***************************************************************************)
Conds == {"undefined", "true", "false", "neTrue"}

NoConds == [k \in Keys |-> "undefined"]

Filter(id, k, c) == [id |-> id, conds |-> [NoConds EXCEPT ![k] = c]]

CondHolds(v, c) ==
  CASE c = "undefined" -> TRUE
    [] c = "true" -> v = True
    [] c = "false" -> v = False
    [] c = "neTrue" -> v # True

Matches(id, rec, f) ==
  /\ f.id = 0 \/ f.id = id
  /\ \A k \in Keys : CondHolds(rec[k], f.conds[k])

\* The ids of the documents of collection s that filter f matches.
MatchSet(s, f) == {i \in DOMAIN s : Matches(i, s[i], f)}

\* The first of a set of _ids in natural (insertion) order, 0 when empty.
First(S) == IF S = {} THEN 0 ELSE CHOOSE x \in S : \A y \in S : x <= y

\* The first match of filter f, 0 when there is none.
FirstMatch(s, f) == First(MatchSet(s, f))

\* { $set: update } applied to one document; Undefined: key not in update.
ApplySet(rec, update) ==
  [k \in Keys |-> IF update[k] # Undefined THEN update[k] ELSE rec[k]]

\* The first of the matched documents M, as a set.
Single(M) == M \cap {First(M)}

\* { $set: update } applied to the documents M of collection s.
updateIds(s, M, update) ==
  [i \in DOMAIN s |-> IF i \in M THEN ApplySet(s[i], update) ELSE s[i]]

\* Model.updateOne / Model.updateMany (no plugin hook is registered on them).
updateOne(s, f, update) == updateIds(s, Single(MatchSet(s, f)), update)

updateMany(s, f, update) == updateIds(s, MatchSet(s, f), update)

(***************************************************************************)
(* Query objects: a filter and the transient _includeDeleted flag.         *)
(***************************************************************************)
IdFilter(id) == [id |-> id, conds |-> NoConds]

NewQuery(f) == [filter |-> f, includeDeleted |-> FALSE]

\* Query.where({[k]: c}): the condition is merged into the filter.
where(q, k, c) == [q EXCEPT !.filter.conds[k] = c]

\* Mutant: active() asks for the flag to equal false.
active_EqFalse(o, q) == where(q, o.deletedField, "false")

\* The query helpers of schema.query.
active(o, q) == where(q, o.deletedField, "neTrue")

deleted(o, q) == where(q, o.deletedField, "true")

withDeleted(o, q) == [q EXCEPT !.includeDeleted = TRUE]

\* Mutant: the helpers do not check the configured flag name.
HelperThrows_Never(o, mod) == FALSE

\* active() and deleted() throw when the configured flag name is falsy.
HelperThrows(o, mod) == mod \in {"active", "deleted"} /\ o.deletedField = ""

Helpers == {"none", "active", "deleted", "withDeleted"}

ApplyHelper(o, q, mod) ==
  CASE mod = "active" -> active(o, q)
    [] mod = "deleted" -> deleted(o, q)
    [] mod = "withDeleted" -> withDeleted(o, q)
    [] OTHER -> q

\* schema.query extends Query objects only: an Aggregate object has no
\* active / deleted / withDeleted method.
HasHelper(objectKind, mod) == mod = "none" \/ objectKind = "Query"

\* Mutant: the hook does not look at the include-deleted flag.
queryMiddleware_IgnoresIncludeDeleted(o, q) ==
  IF o.deletedField = "" THEN q
  ELSE IF q.filter.conds[o.deletedField] = "undefined"
    THEN where(q, o.deletedField, "neTrue")
  ELSE q

\* Mutant: the hook requires the flag to equal false.
queryMiddleware_EqFalse(o, q) ==
  IF q.includeDeleted THEN q
  ELSE IF o.deletedField = "" THEN q
  ELSE IF q.filter.conds[o.deletedField] = "undefined"
       THEN where(q, o.deletedField, "false")
  ELSE q

\* The pre hook registered under activeArchive === 'Default'.
queryMiddleware(o, q) ==
  IF q.includeDeleted THEN q
  ELSE IF o.deletedField = "" THEN q
  ELSE IF q.filter.conds[o.deletedField] = "undefined"
    THEN where(q, o.deletedField, "neTrue")
  ELSE q

\* The operations queryMiddleware is registered on (schema.pre).
HookedOps == {"find", "findOne", "findOneAndUpdate", "countDocuments"}

\* Mutant: the hooks are registered for every policy but Scope.
pre_ExceptScope(p, o, op, q) ==
  IF p # "Scope" /\ op \in HookedOps THEN queryMiddleware(o, q) ELSE q

\* The query as it reaches the store: after the pre hooks of model p.
pre(p, o, op, q) ==
  IF p = "Default" /\ op \in HookedOps THEN queryMiddleware(o, q) ELSE q

(***************************************************************************)
(* Results.  ids: the documents found or matched; n: a count; doc: the one *)
(* document an operation returns (id 0: null).                             *)
(***************************************************************************)
NoDoc == [id |-> 0, f |-> EmptyRec]

DocOf(s, i) == IF i = 0 THEN NoDoc ELSE [id |-> i, f |-> s[i]]

Res(ids, n, d) == [err |-> FALSE, ids |-> ids, n |-> n, doc |-> d]

Thrown == [err |-> TRUE, ids |-> {}, n |-> 0, doc |-> NoDoc]

\* The result of an operation on the first of the matched documents M.
One(M, d) == Res(Single(M), Cardinality(Single(M)), d)

\* The result of an operation on all the matched documents M.
Many(M) == Res(M, Cardinality(M), NoDoc)

ReadKinds == {"find", "findOne", "findById", "countDocuments"}

\* findById(id) is findOne({_id: id}).
HookOp(kind) == IF kind = "findById" THEN "findOne" ELSE kind

ExecRead(kind, s, f) ==
  CASE kind = "find" -> Many(MatchSet(s, f))
    [] kind = "countDocuments" -> Res({}, Cardinality(MatchSet(s, f)), NoDoc)
    [] OTHER -> One(MatchSet(s, f), DocOf(s, FirstMatch(s, f)))

\* Calling helper mod on query q: the helper throws before it touches the
\* query, or returns the query it changed.
CallHelper(o, q, mod) ==
  IF HelperThrows(o, mod) THEN [err |-> TRUE, q |-> q]
  ELSE [err |-> FALSE, q |-> ApplyHelper(o, q, mod)]

\* Model.<kind>(filter).<mod>() executed on model p.
RunQuery(p, o, s, kind, id, mod) ==
  IF CallHelper(o, NewQuery(IdFilter(id)), mod).err THEN Thrown
  ELSE ExecRead(kind, s,
                pre(p, o, HookOp(kind), CallHelper(o, NewQuery(IdFilter(id)), mod).q).filter)

(***************************************************************************)
(* Delete-class operations.                                                *)
(***************************************************************************)
\* Mutant: the overrides name an actor themselves.
SoftDeleteUpdate_WithActor(o, t) ==
  [k \in Keys |->
     IF k = o.deletedField THEN True
     ELSE IF o.deletedAt /\ k = o.deletedAtField THEN Date(t)
     ELSE IF o.deletedBy /\ k = o.deletedByField THEN AdminUserId
     ELSE Undefined]

\* Mutant: the overrides write the default names whatever the configuration.
SoftDeleteUpdate_DefaultNames(o, t) ==
  [k \in Keys |->
     IF k = DefaultOpts.deletedField THEN True
     ELSE IF o.deletedAt /\ k = DefaultOpts.deletedAtField THEN Date(t)
     ELSE Undefined]

\* Mutant: the overrides stamp the document but leave the flag alone.
SoftDeleteUpdate_NoFlag(o, t) ==
  [k \in Keys |->
     IF o.deletedAt /\ k = o.deletedAtField THEN Date(t) ELSE Undefined]

\* Mutant: the overrides forget the deletion timestamp.
SoftDeleteUpdate_NoTimestamp(o, t) ==
  [k \in Keys |-> IF k = o.deletedField THEN True ELSE Undefined]

\* The update object built by each of the four delete overrides at time t.
SoftDeleteUpdate(o, t) ==
  [k \in Keys |->
     IF k = o.deletedField THEN True
     ELSE IF o.deletedAt /\ k = o.deletedAtField THEN Date(t)
     ELSE Undefined]

\* The options a caller passes to findOneAndDelete / findByIdAndDelete: the
\* three ways of asking for the document before or after the update.
NoOptions == [new |-> "absent", returnDocument |-> "absent", returnOriginal |-> "absent"]

CallerOptions ==
  {NoOptions,
   [NoOptions EXCEPT !.new = "true"],
   [NoOptions EXCEPT !.returnDocument = "after"],
   [NoOptions EXCEPT !.returnOriginal = "false"]}

\* { ...options, new: false }
WithNewFalse(options) == [options EXCEPT !.new = "false"]

\* How findOneAndUpdate resolves the three options into the document it
\* returns: `new` is folded into returnDocument first, returnOriginal next.
ReturnDocument(options) ==
  LET fromNew == IF options.new = "absent" THEN options.returnDocument
                 ELSE IF options.new = "true" THEN "after" ELSE "before"
      fromOriginal == IF options.returnOriginal = "absent" THEN fromNew
                      ELSE IF options.returnOriginal = "true" THEN "before" ELSE "after"
  IN IF fromOriginal = "absent" THEN "before" ELSE fromOriginal

\* The filter findOneAndUpdate executes on model p: its pre hook has run.
FindOneAndUpdateFilter(p, o, f) == pre(p, o, "findOneAndUpdate", NewQuery(f)).filter

\* findOneAndUpdate once its filter has matched the documents M: the new
\* collection and the document returned, before or after the update.
findOneAndModify(s, M, update, options) ==
  [store |-> updateIds(s, M, update),
   res |-> Res(M, Cardinality(M),
               IF ReturnDocument(options) = "before" THEN DocOf(s, First(M))
               ELSE DocOf(updateIds(s, M, update), First(M)))]

\* Model.findOneAndUpdate(f, {$set: update}, options) on model p.
findOneAndUpdate(p, o, s, f, update, options) ==
  findOneAndModify(s, Single(MatchSet(s, FindOneAndUpdateFilter(p, o, f))), update, options)

\* Mutant: deleteOne runs through the hooked operation.
deleteOne_Hooked(p, o, s, f, t) ==
  [store |-> updateOne(s, FindOneAndUpdateFilter(p, o, f), SoftDeleteUpdate(o, t)),
   res |-> One(MatchSet(s, FindOneAndUpdateFilter(p, o, f)), NoDoc)]

deleteOne(p, o, s, f, t) ==
  [store |-> updateOne(s, f, SoftDeleteUpdate(o, t)),
   res |-> One(MatchSet(s, f), NoDoc)]

deleteMany(p, o, s, f, t) ==
  [store |-> updateMany(s, f, SoftDeleteUpdate(o, t)),
   res |-> Many(MatchSet(s, f))]

findOneAndDelete(p, o, s, f, options, t) ==
  findOneAndUpdate(p, o, s, f, SoftDeleteUpdate(o, t), WithNewFalse(options))

\* findByIdAndUpdate(id, ...) is findOneAndUpdate({_id: id}, ...).
findByIdAndDelete(p, o, s, id, options, t) ==
  findOneAndUpdate(p, o, s, IdFilter(id), SoftDeleteUpdate(o, t), WithNewFalse(options))

(***************************************************************************)
(* Restore.                                                                *)
(***************************************************************************)
\* Mutant: restore leaves the deletion timestamp in place.
RestoreUpdate_KeepTimestamp(o) ==
  [k \in Keys |->
     IF k = o.deletedField THEN False
     ELSE IF o.deletedBy /\ k = o.deletedByField THEN Null
     ELSE Undefined]

\* The fields both restore operations assign.
RestoreUpdate(o) ==
  [k \in Keys |->
     IF k = o.deletedField THEN False
     ELSE IF o.deletedAt /\ k = o.deletedAtField THEN Null
     ELSE IF o.deletedBy /\ k = o.deletedByField THEN Null
     ELSE Undefined]

\* { ...filter, [opts.deletedField]: true }
RestoreFilter(o, f) == [f EXCEPT !.conds[o.deletedField] = "true"]

\* schema.statics.restore(filter)
staticRestore(o, s, f) ==
  [store |-> updateMany(s, RestoreFilter(o, f), RestoreUpdate(o)),
   res |-> Many(MatchSet(s, RestoreFilter(o, f)))]

(***************************************************************************)
(* Document instances.  An instance holds the field values it was loaded   *)
(* with; a field the stored document lacks is given its schema default,    *)
(* and dflt remembers the fields so defaulted to a non-null value.         *)
(***************************************************************************)
NoInstance == [id |-> 0, f |-> EmptyRec, dflt |-> {}]

Hydrate(o, i, rec) ==
  [id |-> i,
   f |-> [k \in Keys |-> IF rec[k] = Undefined THEN NewRecord(o, False)[k] ELSE rec[k]],
   dflt |-> {k \in Keys : rec[k] = Undefined /\ NewRecord(o, False)[k] \notin {Undefined, Null}}]

\* The paths save() writes: those whose assigned value differs from the
\* loaded one, and those that carry a non-null default.
DirtyPaths(d, update) ==
  {k \in Keys : update[k] # Undefined /\ (update[k] # d.f[k] \/ k \in d.dflt)}

\* schema.methods.restore: assign the fields on the instance, then save().
instanceRestore(o, s, d) ==
  [store |-> [i \in DOMAIN s |->
                IF i = d.id
                  THEN [k \in Keys |->
                          IF k \in DirtyPaths(d, RestoreUpdate(o))
                            THEN RestoreUpdate(o)[k] ELSE s[i][k]]
                  ELSE s[i]],
   doc |-> [id |-> d.id, f |-> ApplySet(d.f, RestoreUpdate(o)), dflt |-> {}],
   written |-> IF DirtyPaths(d, RestoreUpdate(o)) = {} THEN {} ELSE {d.id}]

(***************************************************************************)
(* Aggregation.  A pipeline is a sequence of $match / $count stages.       *)
(***************************************************************************)
MatchStage(f) == [kind |-> "$match", f |-> f]

CountStage == [kind |-> "$count", f |-> IdFilter(0)]

CallerPipelines ==
  {<<CountStage>>,
   <<MatchStage(Filter(0, "deleted", "true")), CountStage>>,
   <<MatchStage(IdFilter(1)), CountStage>>,
   <<MatchStage(IdFilter(1)), MatchStage(Filter(0, "deleted", "true")), CountStage>>}

NewAggregate(pl) == [pipeline |-> pl, includeDeleted |-> FALSE]

\* Mutant: the hook looks for a flag filter in every stage, not the first.
aggregateMiddleware_AnyStage(o, a) ==
  IF a.includeDeleted THEN a
  ELSE IF o.deletedField = "" THEN a
  ELSE IF \E j \in DOMAIN a.pipeline :
            /\ a.pipeline[j].kind = "$match"
            /\ a.pipeline[j].f.conds[o.deletedField] # "undefined"
    THEN a
  ELSE [a EXCEPT !.pipeline = <<MatchStage(Filter(0, o.deletedField, "neTrue"))>> \o @]

\* The pre('aggregate') hook registered under activeArchive === 'Default'.
aggregateMiddleware(o, a) ==
  IF a.includeDeleted THEN a
  ELSE IF o.deletedField = "" THEN a
  ELSE IF /\ Len(a.pipeline) > 0
          /\ a.pipeline[1].kind = "$match"
          /\ a.pipeline[1].f.conds[o.deletedField] # "undefined"
    THEN a
  ELSE [a EXCEPT !.pipeline = <<MatchStage(Filter(0, o.deletedField, "neTrue"))>> \o @]

preAggregate(p, o, a) == IF p = "Default" THEN aggregateMiddleware(o, a) ELSE a

\* The documents that pass every $match stage; $count counts them.
RunPipeline(s, pl) ==
  LET out == {i \in DOMAIN s :
                \A j \in DOMAIN pl : pl[j].kind = "$match" => Matches(i, s[i], pl[j].f)}
  IN Many(out)

\* Model.aggregate(pl), with or without .withDeleted() called on it.
aggregate(p, o, s, pl, mod) ==
  IF ~HasHelper("Aggregate", mod) THEN Thrown
  ELSE RunPipeline(s, preAggregate(p, o, ApplyHelper(o, NewAggregate(pl), mod)).pipeline)

(***************************************************************************)
(* Caller-side writes of the test suite.                                   *)
(***************************************************************************)
\* The paths the schema declares; an update of any other path is dropped.
SchemaKeys(o) ==
  {o.deletedField} \cup (IF o.deletedAt THEN {o.deletedAtField} ELSE {})
                   \cup (IF o.deletedBy THEN {o.deletedByField} ELSE {})

\* updateOne({_id}, {deleted: true, deletedBy: 'admin-user-id', deletedAt: new Date()})
CallerUpdate(o, t) ==
  [k \in Keys |->
     IF k \notin SchemaKeys(o) THEN Undefined
     ELSE IF k = "deleted" THEN True
     ELSE IF k = "deletedBy" THEN AdminUserId
     ELSE IF k = "deletedAt" THEN Date(t)
     ELSE Undefined]

\* A query object in flight on the Default model: built by Model.<kind>(f),
\* changed by helper calls, passed through the pre hook at each execution,
\* then executed.  added counts the hook runs that added a condition.
Slots == 1..MaxOps

OpKinds == {"find", "findOne", "countDocuments", "findOneAndUpdate"}

FreeOp ==
  [st |-> "free", kind |-> "find", q |-> NewQuery(IdFilter(0)), hooks |-> 0,
   added |-> 0, res |-> Res({}, 0, NoDoc)]

BuiltOp(kind, f) == [FreeOp EXCEPT !.st = "built", !.kind = kind, !.q = NewQuery(f)]

(***************************************************************************)
(* State.                                                                  *)
(*   opts   the resolved plugin options (fixed at schema setup)            *)
(*   store  per model (policy), the collection: documents by _id           *)
(*   doc    per model, the document instance the caller holds              *)
(*   now    the clock new Date() reads                                     *)
(*   plain  the _ids created through the model with the schema defaults,   *)
(*          whose deletion fields the caller never wrote itself            *)
(*   last   the call the caller awaits and, per model, its result;         *)
(*          op "idle" when the caller awaits nothing                       *)
(***************************************************************************)
VARIABLES opts, store, doc, now, plain, last, inflight

vars == <<opts, store, doc, now, plain, last, inflight>>

Op(op, f, mod, options, pl, res) ==
  [op |-> op, f |-> f, mod |-> mod, options |-> options, pipeline |-> pl, res |-> res]

Idle ==
  Op("idle", IdFilter(0), "none", NoOptions, <<>>, [p \in Policies |-> Res({}, 0, NoDoc)])

Init ==
  /\ opts \in {[DefaultOpts EXCEPT !.deletedAt = a, !.deletedBy = b] : a, b \in BOOLEAN}
  /\ store = [p \in Policies |-> <<>>]
  /\ doc = [p \in Policies |-> NoInstance]
  /\ now = 1
  /\ plain = {}
  /\ last = Idle
  /\ inflight = [slot \in Slots |-> FreeOp]

\* A read resolves: r is its result per model.
Resolve(op, f, mod, pl, r) ==
  /\ last' = Op(op, f, mod, NoOptions, pl, r)
  /\ UNCHANGED <<inflight, opts, store, doc, now, plain>>

\* A write resolves: r is, per model, the new collection and the result.
Commit(op, f, options, r) ==
  /\ store' = [p \in Policies |-> r[p].store]
  /\ last' = Op(op, f, "none", options, <<>>, [p \in Policies |-> r[p].res])
  /\ UNCHANGED <<inflight, opts, doc, now, plain>>

\* The caller takes the result of the call it awaited.
Return ==
  /\ last.op # "idle"
  /\ last' = Idle
  /\ UNCHANGED <<inflight, opts, store, doc, now, plain>>

\* Time passes.
Tick ==
  /\ now < MaxClock
  /\ now' = now + 1
  /\ UNCHANGED <<inflight, opts, store, doc, plain, last>>

\* Model.create({...}) or Model.create({..., deleted: true}).
Create(flag) ==
  /\ last.op = "idle"
  /\ \A p \in Policies : Len(store[p]) < MaxDocs
  /\ store' = [p \in Policies |-> Append(store[p], NewRecord(opts, flag))]
  /\ plain' = IF flag = False THEN plain \cup {Len(store["Default"]) + 1} ELSE plain
  /\ UNCHANGED <<inflight, opts, doc, now, last>>

\* A document that was in the collection before the plugin was attached.
InsertLegacy ==
  /\ last.op = "idle"
  /\ \A p \in Policies : Len(store[p]) < MaxDocs
  /\ store' = [p \in Policies |-> Append(store[p], EmptyRec)]
  /\ UNCHANGED <<inflight, opts, doc, now, plain, last>>

\* The caller marks a document deleted itself, naming who deleted it.
MarkDeletedBy(id) ==
  /\ last.op = "idle"
  /\ id \in DOMAIN store["Default"]
  /\ store' = [p \in Policies |-> updateOne(store[p], IdFilter(id), CallerUpdate(opts, now))]
  /\ plain' = plain \ {id}
  /\ UNCHANGED <<inflight, opts, doc, now, last>>

\* find / findOne / findById / countDocuments, with one query helper or none.
Read(kind, id, mod) ==
  /\ last.op = "idle"
  /\ IF kind = "findById" THEN id \in DOMAIN store["Default"] ELSE id = 0
  /\ Resolve(kind, IdFilter(id), mod, <<>>,
             [p \in Policies |-> RunQuery(p, opts, store[p], kind, id, mod)])

\* Model.aggregate(pipeline), optionally followed by .withDeleted().
Aggregate(pl, mod) ==
  /\ last.op = "idle"
  /\ Resolve("aggregate", IdFilter(0), mod, pl,
             [p \in Policies |-> aggregate(p, opts, store[p], pl, mod)])

DeleteOne(f) ==
  /\ last.op = "idle"
  /\ Commit("deleteOne", f, NoOptions,
            [p \in Policies |-> deleteOne(p, opts, store[p], f, now)])

DeleteMany(f) ==
  /\ last.op = "idle"
  /\ Commit("deleteMany", f, NoOptions,
            [p \in Policies |-> deleteMany(p, opts, store[p], f, now)])

FindOneAndDelete(f, options) ==
  /\ last.op = "idle"
  /\ Commit("findOneAndDelete", f, options,
            [p \in Policies |-> findOneAndDelete(p, opts, store[p], f, options, now)])

FindByIdAndDelete(id, options) ==
  /\ last.op = "idle"
  /\ id \in DOMAIN store["Default"]
  /\ Commit("findByIdAndDelete", IdFilter(id), options,
            [p \in Policies |-> findByIdAndDelete(p, opts, store[p], id, options, now)])

\* Model.restore(filter)
StaticRestore(f) ==
  /\ last.op = "idle"
  /\ Commit("restore", f, NoOptions,
            [p \in Policies |-> staticRestore(opts, store[p], f)])

\* The caller loads a document instance: findById(id).withDeleted().
Load(id) ==
  /\ last.op = "idle"
  /\ id \in DOMAIN store["Default"]
  /\ doc' = [p \in Policies |-> Hydrate(opts, id, store[p][id])]
  /\ UNCHANGED <<inflight, opts, store, now, plain, last>>

\* Saved(r): instance.restore() resolves with the saved instance.
Saved(r) ==
  /\ store' = [p \in Policies |-> r[p].store]
  /\ doc' = [p \in Policies |-> r[p].doc]
  /\ last' = Op("instanceRestore", IdFilter(doc["Default"].id), "none", NoOptions, <<>>,
                [p \in Policies |->
                   Res(r[p].written, Cardinality(r[p].written),
                       [id |-> r[p].doc.id, f |-> r[p].doc.f])])
  /\ UNCHANGED <<inflight, opts, now, plain>>

\* instance.restore() on the instance the caller holds.
InstanceRestore ==
  /\ last.op = "idle"
  /\ doc["Default"].id # 0
  /\ Saved([p \in Policies |-> instanceRestore(opts, store[p], doc[p])])

\* The filters callers pass: by _id or not, or constraining the deletion flag.
Filters ==
  {IdFilter(i) : i \in {0} \cup DOMAIN store["Default"]}
    \cup {Filter(0, opts.deletedField, c) : c \in {"true", "false"}}

\* The calls a caller may issue when it awaits nothing.
Call ==
  \/ \E flag \in {False, True} : Create(flag)
  \/ InsertLegacy
  \/ \E id \in Ids : MarkDeletedBy(id)
  \/ \E kind \in ReadKinds, id \in {0} \cup Ids, mod \in Helpers : Read(kind, id, mod)
  \/ \E pl \in CallerPipelines, mod \in {"none", "withDeleted"} : Aggregate(pl, mod)
  \/ \E f \in Filters : DeleteOne(f)
  \/ \E f \in Filters : DeleteMany(f)
  \/ \E f \in Filters, options \in CallerOptions : FindOneAndDelete(f, options)
  \/ \E id \in Ids, options \in CallerOptions : FindByIdAndDelete(id, options)
  \/ \E f \in Filters : StaticRestore(f)
  \/ \E id \in Ids : Load(id)
  \/ InstanceRestore

Next ==
  \/ Return
  \/ Tick
  \/ last.op = "idle" /\ Call

Spec == Init /\ [][Next]_vars

(***************************************************************************)
(* The same program with the caller restricted to one part of the API.     *)
(***************************************************************************)
\* Creation and the caller's own updates.
CallSetup ==
  \/ \E flag \in {False, True} : Create(flag)
  \/ InsertLegacy
  \/ \E id \in Ids : MarkDeletedBy(id)

\* The delete-class operations, with every options value.
CallDelete ==
  \/ \E f \in Filters : DeleteOne(f)
  \/ \E f \in Filters : DeleteMany(f)
  \/ \E f \in Filters, options \in CallerOptions : FindOneAndDelete(f, options)
  \/ \E id \in Ids, options \in CallerOptions : FindByIdAndDelete(id, options)

\* The delete-class operations, called without options.
CallDeleteNoOptions ==
  \/ \E f \in Filters : DeleteOne(f)
  \/ \E f \in Filters : DeleteMany(f)
  \/ \E f \in Filters : FindOneAndDelete(f, NoOptions)
  \/ \E id \in Ids : FindByIdAndDelete(id, NoOptions)

CallRead ==
  \/ \E kind \in ReadKinds, id \in {0} \cup Ids, mod \in Helpers : Read(kind, id, mod)
  \/ \E pl \in CallerPipelines, mod \in {"none", "withDeleted"} : Aggregate(pl, mod)

CallRestore ==
  \/ \E f \in Filters : StaticRestore(f)
  \/ \E id \in Ids : Load(id)
  \/ InstanceRestore

\* Writes through the model and reads, at one clock reading.
NextRead ==
  \/ Return
  \/ last.op = "idle" /\ (CallSetup \/ CallDeleteNoOptions \/ (\E f \in Filters : StaticRestore(f)) \/ CallRead)

SpecRead == Init /\ [][NextRead]_vars

\* Writes through the model as time passes.
NextWrite ==
  \/ Return
  \/ Tick
  \/ last.op = "idle" /\ (CallSetup \/ CallDelete \/ (\E f \in Filters : StaticRestore(f)))

SpecWrite == Init /\ [][NextWrite]_vars

\* Deletes and both restores, with document instances held by the caller.
NextRestore ==
  \/ Return
  \/ last.op = "idle" /\ (CallSetup \/ CallDeleteNoOptions \/ CallRestore)

SpecRestore == Init /\ [][NextRestore]_vars

(***************************************************************************)
(* The model with renamed fields (CustomUser): deletedField 'isDeleted',    *)
(* deletedAtField 'removedAt'.                                             *)
(***************************************************************************)
InitCustom ==
  /\ opts = CustomOpts
  /\ store = [p \in Policies |-> <<>>]
  /\ doc = [p \in Policies |-> NoInstance]
  /\ now = 1
  /\ plain = {}
  /\ last = Idle
  /\ inflight = [slot \in Slots |-> FreeOp]

\* A document that was soft-deleted under the default names before the
\* fields were renamed: it holds deleted / deletedAt as data of its own.
InsertOldNames ==
  /\ last.op = "idle"
  /\ \A p \in Policies : Len(store[p]) < MaxDocs
  /\ store' = [p \in Policies |->
                 Append(store[p],
                        [NewRecord(opts, False) EXCEPT
                           ![DefaultOpts.deletedField] = True,
                           ![DefaultOpts.deletedAtField] = Date(now)])]
  /\ UNCHANGED <<inflight, opts, doc, now, plain, last>>

\* The pipelines a caller of the renamed model passes.
CustomPipelines ==
  {<<CountStage>>, <<MatchStage(Filter(0, CustomOpts.deletedField, "true")), CountStage>>}

NextCustom ==
  \/ Return
  \/ last.op = "idle" /\ \E flag \in {False, True} : Create(flag)
  \/ last.op = "idle" /\ InsertOldNames
  \/ last.op = "idle" /\ CallDeleteNoOptions
  \/ last.op = "idle" /\ CallRestore
  \/ last.op = "idle" /\ \E kind \in ReadKinds, id \in {0} \cup Ids, mod \in Helpers : Read(kind, id, mod)
  \/ last.op = "idle" /\ \E pl \in CustomPipelines : Aggregate(pl, "none")

SpecCustom == InitCustom /\ [][NextCustom]_vars

(***************************************************************************)
(* A model whose configured deletion-flag name is falsy.                   *)
(***************************************************************************)
InitFalsy ==
  /\ opts \in {[DefaultOpts EXCEPT !.deletedField = "", !.deletedAt = a, !.deletedBy = b] :
                 a, b \in BOOLEAN}
  /\ store = [p \in Policies |-> <<>>]
  /\ doc = [p \in Policies |-> NoInstance]
  /\ now = 1
  /\ plain = {}
  /\ last = Idle
  /\ inflight = [slot \in Slots |-> FreeOp]

NextFalsy ==
  \/ Return
  \/ last.op = "idle" /\ \E flag \in {False, True} : Create(flag)
  \/ last.op = "idle" /\ InsertLegacy
  \/ last.op = "idle" /\ CallRead

SpecFalsy == InitFalsy /\ [][NextFalsy]_vars

(***************************************************************************)
(* Query objects in flight on the Default model, with the calls on them    *)
(* and the executions interleaved.                                         *)
(***************************************************************************)
\* Mutant: withDeleted() sets the flag where every query in flight sees it.
callOn_SharedFlag(ops, slot, mod) ==
  [i \in DOMAIN ops |->
     IF i = slot THEN [ops[i] EXCEPT !.q = CallHelper(opts, @, mod).q]
     ELSE IF mod = "withDeleted" THEN [ops[i] EXCEPT !.q.includeDeleted = TRUE]
     ELSE ops[i]]

\* Helper mod is called on the query in the given slot: the helper's `this`
\* is that query object.
callOn(ops, slot, mod) == [ops EXCEPT ![slot].q = CallHelper(opts, @, mod).q]

\* One run of the pre hooks of the Default model on a query object.
Hooked(o, op) ==
  [op EXCEPT !.st = "hooked",
             !.q = pre("Default", o, op.kind, op.q),
             !.hooks = @ + 1,
             !.added = IF pre("Default", o, op.kind, op.q) # op.q THEN @ + 1 ELSE @]

\* The execution of a hooked query against collection s at time t.
Executed(o, s, op, t) ==
  IF op.kind = "findOneAndUpdate"
    THEN findOneAndModify(s, Single(MatchSet(s, op.q.filter)), SoftDeleteUpdate(o, t), NoOptions)
    ELSE [store |-> s, res |-> ExecRead(op.kind, s, op.q.filter)]

InitOps ==
  /\ opts = DefaultOpts
  /\ store = [p \in Policies |-> <<>>]
  /\ doc = [p \in Policies |-> NoInstance]
  /\ now = 1
  /\ plain = {}
  /\ last = Idle
  /\ inflight = [slot \in Slots |-> FreeOp]

Build(slot, kind, f) ==
  /\ inflight[slot].st = "free"
  /\ inflight' = [inflight EXCEPT ![slot] = BuiltOp(kind, f)]
  /\ UNCHANGED <<opts, store, doc, now, plain, last>>

Helper(slot, mod) ==
  /\ inflight[slot].st = "built"
  /\ inflight' = callOn(inflight, slot, mod)
  /\ UNCHANGED <<opts, store, doc, now, plain, last>>

PreHook(slot) ==
  /\ inflight[slot].st \in {"built", "hooked"}
  /\ inflight[slot].hooks < MaxHooks
  /\ inflight' = [inflight EXCEPT ![slot] = Hooked(opts, @)]
  /\ UNCHANGED <<opts, store, doc, now, plain, last>>

Exec(slot) ==
  /\ inflight[slot].st = "hooked"
  /\ store' = [store EXCEPT !["Default"] =
                 Executed(opts, store["Default"], inflight[slot], now).store]
  /\ inflight' = [inflight EXCEPT ![slot] =
                    [@ EXCEPT !.st = "done",
                              !.res = Executed(opts, store["Default"], inflight[slot], now).res]]
  /\ UNCHANGED <<opts, doc, now, plain, last>>

Release(slot) ==
  /\ inflight[slot].st = "done"
  /\ inflight' = [inflight EXCEPT ![slot] = FreeOp]
  /\ UNCHANGED <<opts, store, doc, now, plain, last>>

\* The filters the callers of the interleaved operations pass.
OpFilters == {IdFilter(0), Filter(0, DefaultOpts.deletedField, "true")}

NextOps ==
  \/ \E flag \in {False, True} : Create(flag)
  \/ InsertLegacy
  \/ \E slot \in Slots, kind \in OpKinds, f \in OpFilters : Build(slot, kind, f)
  \/ \E slot \in Slots, mod \in {"active", "deleted", "withDeleted"} : Helper(slot, mod)
  \/ \E slot \in Slots : PreHook(slot)
  \/ \E slot \in Slots : Exec(slot)
  \/ \E slot \in Slots : Release(slot)

SpecOps == InitOps /\ [][NextOps]_vars

(***************************************************************************)
(* Properties.                                                             *)
(***************************************************************************)
DeleteOps == {"deleteOne", "deleteMany", "findOneAndDelete", "findByIdAndDelete"}

\* The step is a call of one of the given operations.
Called(ops) == last.op = "idle" /\ last'.op \in ops

Flag(rec) == rec[opts.deletedField]

At(rec) == rec[opts.deletedAtField]

By(rec) == rec[opts.deletedByField]

IsSet(v) == v \notin {Null, Undefined}

\* The documents of collection s whose deletion flag is not true / is true.
ActiveIds(s) == {i \in DOMAIN s : Flag(s[i]) # True}

DeletedIds(s) == {i \in DOMAIN s : Flag(s[i]) = True}

\* C1: a delete-class operation removes no document, and every document it
\* matched is afterwards returned by a withDeleted() read, with the
\* deletion flag true and, when deletedAt is enabled, a deletion timestamp.
C1_SoftDeleteKeepsRecords ==
  [][Called(DeleteOps) =>
       \A p \in Policies :
         /\ DOMAIN store[p] \subseteq DOMAIN store'[p]
         /\ \A i \in last'.res[p].ids :
              /\ i \in RunQuery(p, opts, store'[p], "find", 0, "withDeleted").ids
              /\ Flag(store'[p][i]) = True
              /\ opts.deletedAt => IsSet(At(store'[p][i]))]_vars

\* C1 witness: a delete with the timestamp enabled has matched a document
\* under every policy while a second document exists.
C1_Witness ==
  /\ last.op \in DeleteOps
  /\ opts.deletedAt
  /\ \A p \in Policies : last.res[p].ids # {} /\ Len(store[p]) = MaxDocs

\* The documents a read with the given helper is expected to see, before the
\* caller's own _id condition (0 = none) is applied.
Visible(s, mod) ==
  CASE mod = "deleted" -> DeletedIds(s)
    [] mod = "withDeleted" -> DOMAIN s
    [] OTHER -> ActiveIds(s)

ById(S, id) == IF id = 0 THEN S ELSE S \cap {id}

\* What a read of the given kind returns when it sees exactly the set V.
Sees(kind, s, r, V) ==
  /\ ~r.err
  /\ CASE kind = "find" -> r.ids = V
       [] kind = "countDocuments" -> r.n = Cardinality(V)
       [] OTHER -> r.ids = Single(V) /\ r.doc = DocOf(s, First(V))

\* C2: under the Default policy an unmodified find, findOne, findById or
\* countDocuments sees exactly the documents whose flag is not true, the
\* same read with deleted() sees exactly those whose flag is true, and with
\* withDeleted() it sees every document.
C2_DefaultReadVisibility ==
  (last.op \in ReadKinds /\ last.mod \in {"none", "deleted", "withDeleted"}) =>
    Sees(last.op, store["Default"], last.res["Default"],
         ById(Visible(store["Default"], last.mod), last.f.id))

\* C2 witness: an unmodified find under Default returned the one active
\* document of a collection that also holds a soft-deleted one.
C2_Witness ==
  /\ last.op = "find"
  /\ last.mod = "none"
  /\ ActiveIds(store["Default"]) # {}
  /\ DeletedIds(store["Default"]) # {}
  /\ last.res["Default"].ids = ActiveIds(store["Default"])

\* What an explicit-scope read is expected to see: everything unless the
\* caller narrowed it with active() or deleted().
Scoped(s, mod) ==
  CASE mod = "active" -> ActiveIds(s)
    [] mod = "deleted" -> DeletedIds(s)
    [] OTHER -> DOMAIN s

\* C3: under the Scope and All policies no read gets an implicit filter:
\* an unmodified read sees every document, active() and deleted() narrow
\* it, an aggregation runs the caller's pipeline as given; and All behaves
\* exactly as Scope, in results and in the stored documents.
C3_ScopeAndAllNeverFilter ==
  /\ \A p \in {"Scope", "All"} :
       /\ last.op \in ReadKinds =>
            Sees(last.op, store[p], last.res[p],
                 ById(Scoped(store[p], last.mod), last.f.id))
       /\ (last.op = "aggregate" /\ last.mod = "none"
             /\ last.pipeline = <<CountStage>>) =>
            last.res[p].n = Len(store[p])
  /\ store["All"] = store["Scope"]
  /\ doc["All"] = doc["Scope"]
  /\ last.res["All"] = last.res["Scope"]

\* C3 witness: an unmodified find under Scope and under All returned both
\* an active and a soft-deleted document.
C3_Witness ==
  /\ last.op = "find"
  /\ last.mod = "none"
  /\ \A p \in {"Scope", "All"} :
       /\ last.res[p].ids \cap ActiveIds(store[p]) # {}
       /\ last.res[p].ids \cap DeletedIds(store[p]) # {}

\* A restored document: flag false, no timestamp and no actor (when these
\* fields are enabled).
IsRestored(rec) ==
  /\ Flag(rec) = False
  /\ opts.deletedAt => ~IsSet(At(rec))
  /\ opts.deletedBy => ~IsSet(By(rec))

\* The instance held by the caller shows the document as it is stored now.
Fresh(p) ==
  /\ doc[p].id \in DOMAIN store[p]
  /\ doc[p] = Hydrate(opts, doc[p].id, store[p][doc[p].id])

\* The soft-deleted documents a restore step is applied to: the one behind
\* the instance, or the deleted ones the caller's filter matches.
RestoreTargets(p, op, f) ==
  IF op = "instanceRestore"
    THEN {doc[p].id} \cap DeletedIds(store[p])
    ELSE MatchSet(store[p], f) \cap DeletedIds(store[p])

\* After the step every target is restored and an unmodified Default find
\* returns it.
RestoredAndVisible(p, T) ==
  \A i \in T :
    /\ IsRestored(store'[p][i])
    /\ p = "Default" =>
         i \in RunQuery(p, opts, store'[p], "find", 0, "none").ids

\* C4 (as stated): restoring a deleted document by the instance restore()
\* or by a static restore(filter) that matches it leaves it with flag
\* false, timestamp null and actor null, and the next unmodified Default
\* read includes it.
C4_RestoreAnyInstance ==
  [][Called({"instanceRestore", "restore"}) =>
       \A p \in Policies :
         RestoredAndVisible(p, RestoreTargets(p, last'.op, last'.f))]_vars

\* C4 (amended): the same, where the instance restore() is called on an
\* instance that shows the document as currently stored.
C4_RestoreFreshInstance ==
  [][(Called({"restore"}) \/ (Called({"instanceRestore"}) /\ \A p \in Policies : Fresh(p))) =>
       \A p \in Policies :
         RestoredAndVisible(p, RestoreTargets(p, last'.op, last'.f))]_vars

\* C4 witness: an instance restore() has written a document that carried a
\* deletion timestamp and an actor, and the document is now restored.
C4_Witness ==
  /\ last.op = "instanceRestore"
  /\ opts.deletedAt /\ opts.deletedBy
  /\ \A p \in Policies :
       /\ last.res[p].ids = {doc[p].id}
       /\ IsRestored(store[p][doc[p].id])
       /\ Len(store[p]) = MaxDocs

\* The documents a step changed.
Modified(p) == {i \in DOMAIN store[p] : store'[p][i] # store[p][i]}

\* C5: the static restore(filter) modifies exactly the documents that match
\* the caller's filter and currently have the flag true, whatever the
\* filter says about the flag, and reports their number (zero when none
\* qualifies) without an error.
C5_RestoreIntersectsFilter ==
  [][Called({"restore"}) =>
       \A p \in Policies :
         /\ ~last'.res[p].err
         /\ Modified(p) = MatchSet(store[p], last'.f) \cap DeletedIds(store[p])
         /\ last'.res[p].n = Cardinality(Modified(p))]_vars

\* The timestamp of a document is set exactly when its flag is true.
StampedIffDeleted(rec) == IsSet(At(rec)) <=> Flag(rec) = True

\* C6 (as stated): with the timestamp enabled, in every state reachable by
\* creations, the four deletes and both restores, every document has a
\* deletion timestamp if and only if its flag is true.
C6_TimestampIffFlag ==
  opts.deletedAt =>
    \A p \in Policies : \A i \in DOMAIN store[p] : StampedIffDeleted(store[p][i])

\* C6 (amended): the same for the documents that were created with the
\* schema defaults and written since only by the deletes and the restores.
C6_TimestampIffFlagOfPlain ==
  opts.deletedAt =>
    \A p \in Policies : \A i \in plain : StampedIffDeleted(store[p][i])

\* C6 witness: with the timestamp enabled, one document created with the
\* defaults is soft-deleted and stamped while another one has been deleted
\* and brought back by the instance restore().
C6_Witness ==
  /\ opts.deletedAt
  /\ last.op = "instanceRestore"
  /\ \A p \in Policies :
       /\ last.res[p].ids # {}
       /\ doc[p].id \in plain
       /\ IsRestored(store[p][doc[p].id])
       /\ \E j \in plain : Flag(store[p][j]) = True /\ IsSet(At(store[p][j]))

\* The documents the caller's own $match stages admit.
Admitted(s, pl) ==
  {i \in DOMAIN s :
     \A j \in DOMAIN pl : pl[j].kind = "$match" => Matches(i, s[i], pl[j].f)}

\* The caller's first stage is a $match on the deletion flag.
FirstStageOnFlag(pl) ==
  /\ Len(pl) > 0
  /\ pl[1].kind = "$match"
  /\ pl[1].f.conds[opts.deletedField] # "undefined"

\* An aggregation under Scope or All processes what its own stages admit.
ScopeAggregates ==
  \A p \in {"Scope", "All"} :
    /\ last.res[p].ids = Admitted(store[p], last.pipeline)
    /\ last.pipeline = <<CountStage>> => last.res[p].n = Len(store[p])

\* An aggregation under Default processes the active documents only.
DefaultAggregatesActive ==
  /\ last.res["Default"].ids =
       Admitted(store["Default"], last.pipeline) \cap ActiveIds(store["Default"])
  /\ last.pipeline = <<CountStage>> =>
       last.res["Default"].n = Cardinality(ActiveIds(store["Default"]))

\* C7 (as stated): an aggregation under Default processes only documents
\* whose flag is not true (a $count pipeline yields the number of active
\* documents); under Scope or All it processes every document.
C7_AggregateSeesActiveOnly ==
  (last.op = "aggregate" /\ last.mod = "none") =>
    DefaultAggregatesActive /\ ScopeAggregates

\* C7 (amended): the same, for the pipelines whose first stage is not a
\* $match on the deletion flag.
C7_AggregateSeesActiveUnlessFirstStage ==
  (last.op = "aggregate" /\ last.mod = "none") =>
    /\ ~FirstStageOnFlag(last.pipeline) => DefaultAggregatesActive
    /\ ScopeAggregates

\* C7 witness: a $count aggregation over one active and one soft-deleted
\* document yields 1 under Default and 2 under Scope and All.
C7_Witness ==
  /\ last.op = "aggregate"
  /\ last.mod = "none"
  /\ last.pipeline = <<CountStage>>
  /\ Cardinality(ActiveIds(store["Default"])) = 1
  /\ Cardinality(DeletedIds(store["Default"])) = 1
  /\ last.res["Default"].n = 1
  /\ last.res["Scope"].n = 2
  /\ last.res["All"].n = 2

\* C8: an aggregation on which withDeleted() is called works as on find():
\* under Default it gets no implicit stage and processes both the active
\* and the soft-deleted documents.
C8_AggregateWithDeleted ==
  (last.op = "aggregate" /\ last.mod = "withDeleted") =>
    /\ ~last.res["Default"].err
    /\ last.res["Default"].ids = Admitted(store["Default"], last.pipeline)

\* The documents the caller's own filter selects for a delete: every match,
\* or the first one for the single-document variants.
DeleteTargets(s, op, f) ==
  IF op = "deleteMany" THEN MatchSet(s, f) ELSE Single(MatchSet(s, f))

\* C9: each of the four deletes marks exactly the documents matched by the
\* caller's own filter (the first match for the single-document variants),
\* nothing added, identically under Default, Scope and All, whether or not
\* the matched document is already soft-deleted.
C9_DeleteUsesCallerFilterOnly ==
  [][Called(DeleteOps) =>
       \A p \in Policies :
         LET T == DeleteTargets(store[p], last'.op, last'.f)
         IN /\ last'.res[p].ids = T
            /\ \A i \in DOMAIN store[p] :
                 store'[p][i] = IF i \in T
                                  THEN ApplySet(store[p][i], SoftDeleteUpdate(opts, now))
                                  ELSE store[p][i]]_vars

\* C10: findOneAndDelete and findByIdAndDelete return the matched document
\* as it was before the update, whatever options the caller passes.
C10_ReturnsPreUpdateDocument ==
  [][Called({"findOneAndDelete", "findByIdAndDelete"}) =>
       \A p \in Policies :
         last'.res[p].doc = DocOf(store[p], First(last'.res[p].ids))]_vars

\* The documents that have no deletion-flag field at all.
FlaglessIds(s) == {i \in DOMAIN s : Flag(s[i]) = Undefined}

\* The read saw document i: a find returned it, a count counted it with
\* the rest of S, a single-document read returned it or one stored before it.
Returned(kind, r, i, S) ==
  CASE kind = "find" -> i \in r.ids
    [] kind = "countDocuments" -> r.n >= Cardinality(S)
    [] OTHER -> r.doc.id \in 1..i

\* C11: a document without the deletion-flag field is treated as active:
\* an unmodified read under Default returns it, active() returns it under
\* every policy, deleted() never returns it, and no read fails because of it.
C11_FlaglessIsActive ==
  last.op \in ReadKinds =>
    \A p \in Policies :
      LET L == ById(FlaglessIds(store[p]), last.f.id)
      IN /\ ~last.res[p].err
         /\ \A i \in L :
              /\ (p = "Default" /\ last.mod = "none") =>
                   Returned(last.op, last.res[p], i, L)
              /\ last.mod = "active" => Returned(last.op, last.res[p], i, L)
              /\ last.mod = "deleted" =>
                   /\ i \notin last.res[p].ids
                   /\ last.res[p].doc.id # i
         /\ (last.mod = "deleted" /\ last.op = "countDocuments") =>
              last.res[p].n = Cardinality(DeletedIds(store[p]))
         /\ (last.op = "findById" /\ last.f.id \in FlaglessIds(store[p])
               /\ (last.mod = "active" \/ (p = "Default" /\ last.mod = "none"))) =>
              last.res[p].doc = DocOf(store[p], last.f.id)

\* C11 witness: active() under every policy has returned a document that
\* has no deletion-flag field, next to a soft-deleted one it left out.
C11_Witness ==
  /\ last.op = "find"
  /\ last.mod = "active"
  /\ \A p \in Policies :
       /\ FlaglessIds(store[p]) # {}
       /\ DeletedIds(store[p]) # {}
       /\ last.res[p].ids = FlaglessIds(store[p])

\* The collection without what it holds under the default names, when the
\* configuration renamed the fields.
Scrub(s) ==
  [i \in DOMAIN s |->
     [k \in Keys |->
        IF k \in DefaultNames \ SchemaKeys(opts) THEN Undefined ELSE s[i][k]]]

\* The documents a delete or static restore matches in collection s.
WriteIds(op, p, s, f) ==
  CASE op = "deleteOne" -> deleteOne(p, opts, s, f, now).res.ids
    [] op = "deleteMany" -> deleteMany(p, opts, s, f, now).res.ids
    [] op = "findOneAndDelete" -> findOneAndDelete(p, opts, s, f, NoOptions, now).res.ids
    [] op = "findByIdAndDelete" -> findByIdAndDelete(p, opts, s, f.id, NoOptions, now).res.ids
    [] OTHER -> staticRestore(opts, s, f).res.ids

\* C12: with the flag and the timestamp renamed, every delete, query helper,
\* Default read and aggregate hook and both restores read and write the
\* configured keys only: no step changes what a document holds under
\* `deleted` or `deletedAt`, and what a read, an aggregation, a delete or a
\* restore matches does not depend on what documents hold under them.
C12_OnlyConfiguredKeys ==
  [][\A p \in Policies :
       /\ \A i \in DOMAIN store[p] : \A k \in Keys \ SchemaKeys(opts) :
            store'[p][i][k] = store[p][i][k]
       /\ Called(ReadKinds) =>
            LET r == RunQuery(p, opts, Scrub(store[p]), last'.op, last'.f.id, last'.mod)
            IN /\ last'.res[p].ids = r.ids
               /\ last'.res[p].n = r.n
               /\ last'.res[p].err = r.err
       /\ Called({"aggregate"}) =>
            last'.res[p].ids =
              aggregate(p, opts, Scrub(store[p]), last'.pipeline, last'.mod).ids
       /\ Called(DeleteOps \cup {"restore"}) =>
            last'.res[p].ids = WriteIds(last'.op, p, Scrub(store[p]), last'.f)]_vars

\* C12 witness: under the renamed fields a delete has marked a document
\* that also holds `deleted: true` from before the renaming, next to an
\* active document that holds the same old data.
C12_Witness ==
  /\ opts = CustomOpts
  /\ last.op \in DeleteOps
  /\ \A p \in Policies :
       /\ Len(store[p]) = MaxDocs
       /\ \A i \in DOMAIN store[p] : store[p][i][DefaultOpts.deletedField] = True
       /\ \E i \in last.res[p].ids :
            /\ Flag(store[p][i]) = True
            /\ At(store[p][i]) = Date(now)
       /\ ActiveIds(store[p]) # {}

\* C13: the deletion-actor field is written only with caller-supplied
\* data: no delete changes a document's actor, and the only operations of
\* the plugin that write it are the two restores, which write null, and
\* only when the actor feature is enabled.
C13_ActorOnlyFromCaller ==
  [][\A p \in Policies :
       /\ Called(DeleteOps) =>
            \A i \in DOMAIN store[p] : By(store'[p][i]) = By(store[p][i])
       /\ Called({"restore", "instanceRestore"}) =>
            \A i \in DOMAIN store[p] :
              \/ By(store'[p][i]) = By(store[p][i])
              \/ opts.deletedBy /\ By(store'[p][i]) = Null
       /\ (Called({"restore"}) /\ opts.deletedBy) =>
            \A i \in last'.res[p].ids : By(store'[p][i]) = Null]_vars

\* C13 witness: with the actor feature enabled a delete has matched a
\* document whose actor the caller had set, and the actor is still there.
C13_Witness ==
  /\ opts.deletedBy
  /\ last.op \in DeleteOps
  /\ \A p \in Policies :
       \E i \in last.res[p].ids :
         /\ By(store[p][i]) = AdminUserId
         /\ Flag(store[p][i]) = True

\* C14: when the configured deletion-flag name is falsy, every call of
\* active() or deleted() throws at the call, under every policy, and the
\* query's filter is what it was before the call.
C14_HelpersThrowOnFalsyName ==
  (last.op \in ReadKinds /\ last.mod \in {"active", "deleted"} /\ opts.deletedField = "") =>
    /\ \A p \in Policies : last.res[p] = Thrown
    /\ CallHelper(opts, NewQuery(last.f), last.mod) = [err |-> TRUE, q |-> NewQuery(last.f)]

\* C14 witness: with a falsy flag name, deleted() was called on a find over
\* a collection that holds documents, and the call threw.
C14_Witness ==
  /\ opts.deletedField = ""
  /\ last.op = "find"
  /\ last.mod = "deleted"
  /\ \A p \in Policies : last.res[p].err /\ Len(store[p]) = MaxDocs

\* The step runs the pre hook on the query in the given slot.
HookRuns(slot) ==
  /\ inflight'[slot].st = "hooked"
  /\ inflight'[slot].hooks = inflight[slot].hooks + 1

\* The query does not carry the include-deleted flag and its filter says
\* nothing about the deletion flag.
Qualifies(q) == ~q.includeDeleted /\ q.filter.conds[opts.deletedField] = "undefined"

WithDeletedCalled(slot) ==
  /\ inflight[slot].st = "built"
  /\ inflight'[slot].st = "built"
  /\ ~inflight[slot].q.includeDeleted
  /\ inflight'[slot].q.includeDeleted

\* C16: the include-deleted flag belongs to the query withDeleted() was
\* called on: in every interleaving of queries being built, modified,
\* hooked and executed, the call changes no filter condition of any query
\* and nothing of any other query, and whether the hook injects into a
\* query depends on that query's own flag and filter only.
C16_FlagIsPerOperation ==
  [][\A slot \in Slots :
       /\ WithDeletedCalled(slot) =>
            /\ inflight'[slot].q.filter = inflight[slot].q.filter
            /\ \A other \in Slots \ {slot} : inflight'[other] = inflight[other]
       /\ HookRuns(slot) =>
            (inflight'[slot].q # inflight[slot].q <=> Qualifies(inflight[slot].q))]_vars

\* C16 witness: two queries are in flight and hooked, one after
\* withDeleted() and without a condition on the flag, the other with the
\* injected condition.
C16_Witness ==
  \E a, b \in Slots :
    /\ inflight[a].st = "hooked"
    /\ inflight[a].q.includeDeleted
    /\ inflight[a].q.filter.conds[opts.deletedField] = "undefined"
    /\ inflight[b].st = "hooked"
    /\ ~inflight[b].q.includeDeleted
    /\ inflight[b].added = 1
    /\ inflight[b].q.filter.conds[opts.deletedField] = "neTrue"

\* The stage the aggregate hook prepends.
ImplicitStage == MatchStage(Filter(0, opts.deletedField, "neTrue"))

\* The caller's pipeline constrains the deletion flag in a stage after the
\* first, and not in the first.
LaterStageOnFlag(pl) ==
  /\ ~FirstStageOnFlag(pl)
  /\ \E j \in DOMAIN pl :
       /\ j > 1
       /\ pl[j].kind = "$match"
       /\ pl[j].f.conds[opts.deletedField] # "undefined"

\* C17: under Default the aggregate hook looks at the first stage only: it
\* prepends the `flag != true` stage unless the first stage is a $match on
\* the flag; when a later stage of the caller's pipeline constrains the
\* flag the stage is still prepended, and the result is what the caller's
\* pipeline yields without it.
C17_LaterStageFilterHarmless ==
  (last.op = "aggregate" /\ last.mod = "none") =>
    /\ preAggregate("Default", opts, NewAggregate(last.pipeline)).pipeline =
         IF FirstStageOnFlag(last.pipeline) THEN last.pipeline
         ELSE <<ImplicitStage>> \o last.pipeline
    /\ LaterStageOnFlag(last.pipeline) =>
         last.res["Default"].ids = Admitted(store["Default"], last.pipeline)

\* C18: deleteOne and deleteMany never get the implicit Default filter:
\* under every policy they match what the caller's filter matches, documents
\* that are already soft-deleted included, and such a document keeps the
\* flag true while its timestamp becomes the time of the later call.
C18_DeleteRestampsDeleted ==
  [][Called({"deleteOne", "deleteMany"}) =>
       \A p \in Policies :
         /\ last'.res[p].ids = DeleteTargets(store[p], last'.op, last'.f)
         /\ \A i \in last'.res[p].ids \cap DeletedIds(store[p]) :
              /\ Flag(store'[p][i]) = True
              /\ opts.deletedAt => At(store'[p][i]) = Date(now)]_vars

\* C18 witness: at the second clock reading a deleteMany on the documents
\* that are already soft-deleted has matched one, under every policy, and
\* the document carries the time of this call.
C18_Witness ==
  /\ opts.deletedAt
  /\ now = MaxClock
  /\ last.op = "deleteMany"
  /\ last.f = Filter(0, opts.deletedField, "true")
  /\ \A p \in Policies :
       \E i \in last.res[p].ids \cap plain :
         /\ Flag(store[p][i]) = True
         /\ At(store[p][i]) = Date(now)

====
